---- MODULE Spec2Model ----
(***************************************************************************)
(* Rephrase & Paraphraser: the seven server actions of src/actions/index.ts *)
(* over the two tables RephraseSessions and RephraseVariants.               *)
(*                                                                          *)
(* A request in flight occupies a slot of `reqs`.  A handler is cut at its  *)
(* awaited database statements: every statement is one atomic step on the   *)
(* tables, and statements of different requests interleave freely.  The     *)
(* synchronous prefix of a handler (input schema, requireUser) touches no   *)
(* table and is taken together with the handler's first statement.  The     *)
(* step that ends a handler frees its slot and puts what the caller         *)
(* receives in `response`, where it stays until it is delivered; the next   *)
(* statement runs after the delivery.                                       *)
(***************************************************************************)
EXTENDS Integers, Sequences, FiniteSets, TLC

VARIABLES
  sessions,   \* the rows of table RephraseSessions
  variants,   \* the rows of table RephraseVariants
  now,        \* the wall clock that new Date() reads
  nextId,     \* the number of identifiers crypto.randomUUID() has handed out, plus one
  calls,      \* the number of calls started
  reqs,       \* per slot, the handler in flight: its action, caller, input and position
  response,   \* what the handler that ended last returns to its caller
  createdBy   \* history: <<id, user>> for every variant ever inserted and its inserting user

vars == <<sessions, variants, now, nextId, calls, reqs, response, createdBy>>

(* ------------------------------ bounds --------------------------------- *)
\* number of clock ticks in a run
MaxTime == 1
\* number of calls started in a run
MaxCalls == 2

(* ------------------------------ values --------------------------------- *)
\* an optional value: <<>> is undefined / NULL, <<v>> is the value v
None == <<>>
Some(v) == <<v>>
IsDefined(o) == o /= None

Users == {"u1", "u2"}
\* context.locals.user: a signed-in user or none
Callers == {Some(u) : u \in Users} \cup {None}

\* slots for the requests in flight
Reqs == {1, 2}

\* the n-th identifier handed out by crypto.randomUUID(): fresh, non-empty
randomUUID(n) == ToString(n)
\* an identifier that names no row
UnknownId == ToString(0)

(* ------------------------------ inputs --------------------------------- *)
\* One record shape for the input of every action; an action reads only the
\* keys of its own schema (z.object drops the others).
NoInput ==
  [id |-> "", sessionId |-> "", language |-> None, context |-> None,
   originalText |-> None, tone |-> None, complexity |-> None,
   variantLabel |-> None, content |-> None, isFavorite |-> None,
   favoritesOnly |-> None]

\* identifiers a caller may send for a session: the empty string, an unknown
\* one, and the one of every session
SessionIds == {UnknownId} \cup {s.id : s \in sessions}
SessionIdInputs == SessionIds \cup {""}
\* for a variant: an unknown one, and the one of every variant ever created
VariantIds == {UnknownId} \cup {c[1] : c \in createdBy}
\* <<id, sessionId>> of the calls on one variant
IdPairs == (VariantIds \X SessionIds) \cup {<<"", UnknownId>>, <<UnknownId, "">>}

\* createSession: a text alone, a text with both labels, an empty text, no text
CreateSessionInputs ==
  {[NoInput EXCEPT !.originalText = Some("t")],
   [NoInput EXCEPT !.originalText = Some("t"), !.language = Some("x"),
                   !.context = Some("x")],
   [NoInput EXCEPT !.originalText = Some("")],
   NoInput}

\* updateSession: no key, each key alone, all three keys
SessionChanges ==
  {NoInput,
   [NoInput EXCEPT !.language = Some("y")],
   [NoInput EXCEPT !.context = Some("y")],
   [NoInput EXCEPT !.originalText = Some("")],
   [NoInput EXCEPT !.originalText = Some("u")],
   [NoInput EXCEPT !.language = Some("y"), !.context = Some("y"),
                   !.originalText = Some("u")]}

UpdateSessionInputs ==
  {[c EXCEPT !.id = i] : c \in SessionChanges, i \in SessionIdInputs}

\* createVariant: a content alone, a content with the flag set, a content
\* with the three descriptors, an empty content, no content
NewVariants ==
  {[NoInput EXCEPT !.content = Some("t")],
   [NoInput EXCEPT !.content = Some("t"), !.isFavorite = Some(TRUE)],
   [NoInput EXCEPT !.content = Some("t"), !.tone = Some("x"),
                   !.complexity = Some("x"), !.variantLabel = Some("x")],
   [NoInput EXCEPT !.content = Some("")],
   NoInput}

CreateVariantInputs ==
  {[c EXCEPT !.sessionId = s] : c \in NewVariants, s \in SessionIdInputs}

\* updateVariant: no key, the three descriptors, a content, the flag
VariantChanges ==
  {NoInput,
   [NoInput EXCEPT !.tone = Some("y"), !.complexity = Some("y"),
                   !.variantLabel = Some("y")],
   [NoInput EXCEPT !.content = Some("")],
   [NoInput EXCEPT !.content = Some("u")],
   [NoInput EXCEPT !.isFavorite = Some(TRUE)],
   [NoInput EXCEPT !.isFavorite = Some(FALSE)]}

UpdateVariantInputs ==
  {[c EXCEPT !.id = p[1], !.sessionId = p[2]] : c \in VariantChanges, p \in IdPairs}

DeleteVariantInputs ==
  {[NoInput EXCEPT !.id = p[1], !.sessionId = p[2]] : p \in IdPairs}

\* listVariants: favoritesOnly omitted or true
ListVariantsInputs ==
  {[NoInput EXCEPT !.sessionId = s, !.favoritesOnly = f] :
     s \in SessionIdInputs, f \in {None, Some(TRUE)}}

(* --------------------------- input schemas ----------------------------- *)
\* z.string().min(1) on a required key
NonEmpty(s) == Len(s) >= 1
RequiredText(o) == IsDefined(o) /\ NonEmpty(o[1])

createSessionInput(i) == RequiredText(i.originalText)

updateSessionInput(i) ==
  /\ NonEmpty(i.id)
  /\ \/ IsDefined(i.language)
     \/ IsDefined(i.context)
     \/ IsDefined(i.originalText)

listSessionsInput(i) == TRUE

createVariantInput(i) == NonEmpty(i.sessionId) /\ RequiredText(i.content)

updateVariantInput(i) ==
  /\ NonEmpty(i.id)
  /\ NonEmpty(i.sessionId)
  /\ \/ IsDefined(i.tone)
     \/ IsDefined(i.complexity)
     \/ IsDefined(i.variantLabel)
     \/ IsDefined(i.content)
     \/ IsDefined(i.isFavorite)

deleteVariantInput(i) == NonEmpty(i.id) /\ NonEmpty(i.sessionId)

listVariantsInput(i) == NonEmpty(i.sessionId)

\* z.boolean().default(false): the handler sees false for an omitted key
favoritesOnlyOf(i) == IF IsDefined(i.favoritesOnly) THEN i.favoritesOnly[1] ELSE FALSE

Valid(op, i) ==
  CASE op = "createSession" -> createSessionInput(i)
    [] op = "updateSession" -> updateSessionInput(i)
    [] op = "listSessions"  -> listSessionsInput(i)
    [] op = "createVariant" -> createVariantInput(i)
    [] op = "updateVariant" -> updateVariantInput(i)
    [] op = "deleteVariant" -> deleteVariantInput(i)
    [] op = "listVariants"  -> listVariantsInput(i)

(* ------------------------------ guards --------------------------------- *)
\* requireUser: the signed-in user, or the UNAUTHORIZED error
requireUser(caller) == IF IsDefined(caller) THEN "OK" ELSE "UNAUTHORIZED"

\* mutant of Enter: requireUser before the input schema
EnterUserFirst(op, caller, i) ==
  IF ~IsDefined(caller) THEN "UNAUTHORIZED"
  ELSE IF ~Valid(op, i) THEN "BAD_REQUEST" ELSE "OK"

\* defineAction: the input schema is parsed first and the handler is called
\* with the parsed input; the handler's first statement is requireUser.
Enter(op, caller, i) ==
  IF ~Valid(op, i) THEN "BAD_REQUEST" ELSE requireUser(caller)

\* mutants of ownedWhere: the owner alone; the id alone
ownedWhereOwnerOnly(s, sessionId, userId) == s.userId = userId
ownedWhereIdOnly(s, sessionId, userId) == s.id = sessionId

\* where(and(eq(RephraseSessions.id, sessionId), eq(RephraseSessions.userId, userId)))
ownedWhere(s, sessionId, userId) == s.id = sessionId /\ s.userId = userId

\* getOwnedSession: one select by id AND userId; NOT_FOUND when no row matches
getOwnedSession(sessionId, userId) ==
  LET found == {s \in sessions : ownedWhere(s, sessionId, userId)}
  IN IF found = {} THEN "NOT_FOUND" ELSE "OK"

(* ----------------------------- requests -------------------------------- *)
Idle == [op |-> "none", caller |-> None, input |-> NoInput, pc |-> "idle"]

NoResponse ==
  [op |-> "none", caller |-> None, input |-> NoInput, code |-> "",
   rows |-> {}, total |-> 0]

\* no response is waiting for its delivery
Quiet == response = NoResponse

\* a call starts on the first free slot
Free(r) ==
  /\ Quiet
  /\ calls < MaxCalls
  /\ reqs[r].pc = "idle"
  /\ \A q \in Reqs : q < r => reqs[q].pc /= "idle"

\* the handler ends: the caller receives `code` with `rows` (and `total`)
Respond(op, caller, i, code, rows, total) ==
  response' = [op |-> op, caller |-> caller, input |-> i, code |-> code,
               rows |-> rows, total |-> total]

\* the request of slot r ends
Finish(r, code, rows, total) ==
  /\ Respond(reqs[r].op, reqs[r].caller, reqs[r].input, code, rows, total)
  /\ reqs' = [reqs EXCEPT ![r] = Idle]

\* the request of slot r awaits its next statement at `pc`
Await(r, op, caller, i, pc) ==
  reqs' = [reqs EXCEPT ![r] = [op |-> op, caller |-> caller, input |-> i, pc |-> pc]]

At(r, op, pc) == Quiet /\ reqs[r].op = op /\ reqs[r].pc = pc

\* the row createSession inserts
NewSession(id, userId, i, t) ==
  [id |-> id, userId |-> userId, language |-> i.language,
   context |-> i.context, originalText |-> i.originalText[1],
   createdAt |-> t, updatedAt |-> t]

\* mutant of isFavoriteOf: input.isFavorite ?? true
isFavoriteOfDefaultTrue(i) == IF IsDefined(i.isFavorite) THEN i.isFavorite[1] ELSE TRUE

\* isFavorite: input.isFavorite ?? false
isFavoriteOf(i) == IF IsDefined(i.isFavorite) THEN i.isFavorite[1] ELSE FALSE

\* the row createVariant inserts
NewVariant(id, i, t) ==
  [id |-> id, sessionId |-> i.sessionId, tone |-> i.tone,
   complexity |-> i.complexity, variantLabel |-> i.variantLabel,
   content |-> i.content[1], isFavorite |-> isFavoriteOf(i), createdAt |-> t]

\* The tables as three calls at time 0 leave them, starting from empty tables:
\* createSession by u1 with both labels (id 1), createSession by u2 with a
\* text alone (id 2), createVariant by u1 in session 1 with a content alone
\* (id 3).  The rows are built by NewSession and NewVariant, as the handlers
\* build them.
SeedSessions ==
  {NewSession(randomUUID(1), "u1",
              [NoInput EXCEPT !.originalText = Some("t"), !.language = Some("x"),
                              !.context = Some("x")], 0),
   NewSession(randomUUID(2), "u2", [NoInput EXCEPT !.originalText = Some("t")], 0)}

SeedVariants ==
  {NewVariant(randomUUID(3),
              [NoInput EXCEPT !.sessionId = randomUUID(1), !.content = Some("t")], 0)}

\* the tables are empty, as the schema creates them, or hold the rows above
Init ==
  /\ \/ /\ sessions = {}
        /\ variants = {}
        /\ nextId = 1
        /\ createdBy = {}
     \/ /\ sessions = SeedSessions
        /\ variants = SeedVariants
        /\ nextId = 4
        /\ createdBy = {<<randomUUID(3), "u1">>}
  /\ now = 0
  /\ calls = 0
  /\ reqs = [r \in Reqs |-> Idle]
  /\ response = NoResponse

(* ------------------------------ sessions ------------------------------- *)
\* createSession: schema, requireUser, insert ... returning
CreateSession(r, caller, i) ==
  /\ Free(r)
  /\ calls' = calls + 1
  /\ LET code == Enter("createSession", caller, i) IN
     IF code /= "OK"
     THEN /\ Respond("createSession", caller, i, code, {}, 0)
          /\ UNCHANGED <<sessions, nextId>>
     ELSE /\ LET session == NewSession(randomUUID(nextId), caller[1], i, now)
             IN /\ sessions' = sessions \cup {session}
                /\ Respond("createSession", caller, i, "OK", {session}, 0)
          /\ nextId' = nextId + 1
  /\ UNCHANGED <<variants, now, reqs, createdBy>>

\* the synchronous prefix and getOwnedSession, shared by the five actions
\* that resolve a session: schema, requireUser, select by id AND userId
Resolve(r, op, caller, i, sessionId) ==
  /\ Free(r)
  /\ calls' = calls + 1
  /\ LET code == Enter(op, caller, i) IN
     IF code /= "OK"
     THEN Respond(op, caller, i, code, {}, 0) /\ UNCHANGED reqs
     ELSE IF getOwnedSession(sessionId, caller[1]) /= "OK"
          THEN Respond(op, caller, i, "NOT_FOUND", {}, 0) /\ UNCHANGED reqs
          ELSE Await(r, op, caller, i, "owned") /\ UNCHANGED response
  /\ UNCHANGED <<sessions, variants, now, nextId, createdBy>>

UpdateSessionCall(r, caller, i) == Resolve(r, "updateSession", caller, i, i.id)

\* mutant of SetSession: language is written whether supplied or not
SetSessionLanguageAlways(s, i) ==
  [s EXCEPT !.language = i.language,
            !.context = IF IsDefined(i.context) THEN i.context ELSE @,
            !.originalText = IF IsDefined(i.originalText) THEN i.originalText[1] ELSE @,
            !.updatedAt = now]

\* the row after .set({...supplied keys, updatedAt: new Date()})
SetSession(s, i) ==
  [s EXCEPT !.language = IF IsDefined(i.language) THEN i.language ELSE @,
            !.context = IF IsDefined(i.context) THEN i.context ELSE @,
            !.originalText = IF IsDefined(i.originalText) THEN i.originalText[1] ELSE @,
            !.updatedAt = now]

\* update(RephraseSessions).set(...).where(id = input.id).returning()
UpdateSessionWrite(r) ==
  /\ At(r, "updateSession", "owned")
  /\ LET i == reqs[r].input
         hit == {s \in sessions : s.id = i.id}
         updated == {SetSession(s, i) : s \in hit}
     IN /\ sessions' = (sessions \ hit) \cup updated
        /\ Finish(r, "OK", updated, 0)
  /\ UNCHANGED <<variants, now, nextId, calls, createdBy>>

\* mutant of listSessionsWhere: no filter
listSessionsWhereAll(s, userId) == TRUE

\* where(eq(RephraseSessions.userId, user.id))
listSessionsWhere(s, userId) == s.userId = userId

\* listSessions: requireUser, select where userId = user.id
ListSessions(r, caller) ==
  /\ Free(r)
  /\ calls' = calls + 1
  /\ LET code == Enter("listSessions", caller, NoInput) IN
     IF code /= "OK"
     THEN Respond("listSessions", caller, NoInput, code, {}, 0)
     ELSE LET rows == {s \in sessions : listSessionsWhere(s, caller[1])}
          IN Respond("listSessions", caller, NoInput, "OK", rows, Cardinality(rows))
  /\ UNCHANGED <<sessions, variants, now, nextId, reqs, createdBy>>

(* ------------------------------ variants ------------------------------- *)
CreateVariantCall(r, caller, i) == Resolve(r, "createVariant", caller, i, i.sessionId)

\* insert(RephraseVariants).values({...}).returning()
CreateVariantInsert(r) ==
  /\ At(r, "createVariant", "owned")
  /\ LET i == reqs[r].input
         variant == NewVariant(randomUUID(nextId), i, now)
     IN /\ variants' = variants \cup {variant}
        /\ createdBy' = createdBy \cup {<<variant.id, reqs[r].caller[1]>>}
        /\ Finish(r, "OK", {variant}, 0)
  /\ nextId' = nextId + 1
  /\ UNCHANGED <<sessions, now, calls>>

UpdateVariantCall(r, caller, i) == Resolve(r, "updateVariant", caller, i, i.sessionId)

\* mutant of existingWhere: the id alone
existingWhereIdOnly(v, i) == v.id = i.id

\* where(and(eq(RephraseVariants.id, input.id), eq(RephraseVariants.sessionId, input.sessionId)))
existingWhere(v, i) == v.id = i.id /\ v.sessionId = i.sessionId

\* select from RephraseVariants where id AND sessionId; NOT_FOUND when empty
UpdateVariantFetch(r) ==
  /\ At(r, "updateVariant", "owned")
  /\ LET i == reqs[r].input
         existing == {v \in variants : existingWhere(v, i)}
     IN IF existing = {}
        THEN Finish(r, "NOT_FOUND", {}, 0)
        ELSE /\ Await(r, "updateVariant", reqs[r].caller, i, "fetched")
             /\ UNCHANGED response
  /\ UNCHANGED <<sessions, variants, now, nextId, calls, createdBy>>

\* the row after .set({...supplied keys})
SetVariant(v, i) ==
  [v EXCEPT !.tone = IF IsDefined(i.tone) THEN i.tone ELSE @,
            !.complexity = IF IsDefined(i.complexity) THEN i.complexity ELSE @,
            !.variantLabel = IF IsDefined(i.variantLabel) THEN i.variantLabel ELSE @,
            !.content = IF IsDefined(i.content) THEN i.content[1] ELSE @,
            !.isFavorite = IF IsDefined(i.isFavorite) THEN i.isFavorite[1] ELSE @]

\* update(RephraseVariants).set(...).where(id = input.id).returning();
\* the handler returns success whatever the statement returned
UpdateVariantWrite(r) ==
  /\ At(r, "updateVariant", "fetched")
  /\ LET i == reqs[r].input
         hit == {v \in variants : v.id = i.id}
         updated == {SetVariant(v, i) : v \in hit}
     IN /\ variants' = (variants \ hit) \cup updated
        /\ Finish(r, "OK", updated, 0)
  /\ UNCHANGED <<sessions, now, nextId, calls, createdBy>>

DeleteVariantCall(r, caller, i) == Resolve(r, "deleteVariant", caller, i, i.sessionId)

\* where(and(eq(RephraseVariants.id, input.id), eq(RephraseVariants.sessionId, input.sessionId)))
deleteWhere(v, i) == v.id = i.id /\ v.sessionId = i.sessionId

\* mutant of deleteResult: rowsAffected is not looked at
deleteResultAlwaysOk(rowsAffected) == "OK"

\* if (result.rowsAffected === 0) throw NOT_FOUND; return { success: true }
deleteResult(rowsAffected) == IF rowsAffected = 0 THEN "NOT_FOUND" ELSE "OK"

\* delete where id AND sessionId; NOT_FOUND when rowsAffected = 0
DeleteVariantDelete(r) ==
  /\ At(r, "deleteVariant", "owned")
  /\ LET i == reqs[r].input
         hit == {v \in variants : deleteWhere(v, i)}
         rowsAffected == Cardinality(hit)
     IN /\ variants' = variants \ hit
        /\ Finish(r, deleteResult(rowsAffected), {}, 0)
  /\ UNCHANGED <<sessions, now, nextId, calls, createdBy>>

ListVariantsCall(r, caller, i) == Resolve(r, "listVariants", caller, i, i.sessionId)

\* filters: sessionId, and isFavorite = true when favoritesOnly
listWhere(v, i) ==
  /\ v.sessionId = i.sessionId
  /\ favoritesOnlyOf(i) => v.isFavorite = TRUE

\* select where and(...filters)
ListVariantsSelect(r) ==
  /\ At(r, "listVariants", "owned")
  /\ LET i == reqs[r].input
         rows == {v \in variants : listWhere(v, i)}
     IN Finish(r, "OK", rows, Cardinality(rows))
  /\ UNCHANGED <<sessions, variants, now, nextId, calls, createdBy>>

(* ----------------------------- environment ----------------------------- *)
\* the response reaches the caller
Deliver ==
  /\ ~Quiet
  /\ response' = NoResponse
  /\ UNCHANGED <<sessions, variants, now, nextId, calls, reqs, createdBy>>

\* the wall clock read by new Date() advances
Tick ==
  /\ Quiet
  /\ now < MaxTime
  /\ now' = now + 1
  /\ UNCHANGED <<sessions, variants, nextId, calls, reqs, response, createdBy>>

\* the seven actions, called on a free slot by any caller with any input
createSession(r) ==
  Free(r) /\ \E c \in Callers, i \in CreateSessionInputs : CreateSession(r, c, i)

updateSession(r) ==
  Free(r) /\ \E c \in Callers, i \in UpdateSessionInputs : UpdateSessionCall(r, c, i)

listSessions(r) ==
  Free(r) /\ \E c \in Callers : ListSessions(r, c)

createVariant(r) ==
  Free(r) /\ \E c \in Callers, i \in CreateVariantInputs : CreateVariantCall(r, c, i)

updateVariant(r) ==
  Free(r) /\ \E c \in Callers, i \in UpdateVariantInputs : UpdateVariantCall(r, c, i)

deleteVariant(r) ==
  Free(r) /\ \E c \in Callers, i \in DeleteVariantInputs : DeleteVariantCall(r, c, i)

listVariants(r) ==
  Free(r) /\ \E c \in Callers, i \in ListVariantsInputs : ListVariantsCall(r, c, i)

Next ==
  \/ \E r \in Reqs : createSession(r)
  \/ \E r \in Reqs : updateSession(r)
  \/ \E r \in Reqs : UpdateSessionWrite(r)
  \/ \E r \in Reqs : listSessions(r)
  \/ \E r \in Reqs : createVariant(r)
  \/ \E r \in Reqs : CreateVariantInsert(r)
  \/ \E r \in Reqs : updateVariant(r)
  \/ \E r \in Reqs : UpdateVariantFetch(r)
  \/ \E r \in Reqs : UpdateVariantWrite(r)
  \/ \E r \in Reqs : deleteVariant(r)
  \/ \E r \in Reqs : DeleteVariantDelete(r)
  \/ \E r \in Reqs : listVariants(r)
  \/ \E r \in Reqs : ListVariantsSelect(r)
  \/ Deliver
  \/ Tick

Spec == Init /\ [][Next]_vars

(* ------------------------------- claims -------------------------------- *)
\* a handler ends in this step, and response' is what its caller receives
Completes == response' /= NoResponse

SessionScoped ==
  {"updateSession", "createVariant", "updateVariant", "deleteVariant", "listVariants"}

\* the session a call refers to
SessionRef(op, i) == IF op = "updateSession" THEN i.id ELSE i.sessionId

Owns(userId, sessionId) ==
  \E s \in sessions : s.id = sessionId /\ s.userId = userId

\* the call answered by `resp` came from a signed-in user, passes its schema
\* and refers to a session of another user
Foreign(resp) ==
  /\ resp.op \in SessionScoped
  /\ IsDefined(resp.caller)
  /\ Valid(resp.op, resp.input)
  /\ \E s \in sessions :
       s.id = SessionRef(resp.op, resp.input) /\ s.userId /= resp.caller[1]

\* C1: a call of updateSession, createVariant, updateVariant, deleteVariant or
\* listVariants that refers to a session of another user ends with NOT_FOUND,
\* returns no row, and leaves both tables as they were.
C1_ForeignSessionNotFound ==
  [][(Completes /\ Foreign(response')) =>
       /\ response'.code = "NOT_FOUND"
       /\ response'.rows = {}
       /\ UNCHANGED <<sessions, variants>>]_vars

\* u2 asks to update a stored variant of a session of u1 and gets NOT_FOUND
C1_Witness ==
  /\ response.op = "updateVariant"
  /\ Foreign(response)
  /\ \E v \in variants :
       v.id = response.input.id /\ v.sessionId = response.input.sessionId
  /\ response.code = "NOT_FOUND"

C3_TextsNonEmpty ==
  /\ \A s \in sessions : s.originalText /= ""
  /\ \A v \in variants : v.content /= ""

\* C4: an updateSession call that supplies none of language, context,
\* originalText fails validation and changes nothing; a successful one is the
\* owner's, writes exactly the supplied keys and updatedAt on the one session
\* with the given id, returns that row, and changes nothing else.
C4_UpdateSessionFrame ==
  [][(Completes /\ response'.op = "updateSession") =>
       LET i == response'.input IN
       /\ ~(\/ IsDefined(i.language)
            \/ IsDefined(i.context)
            \/ IsDefined(i.originalText)) =>
            /\ response'.code = "BAD_REQUEST"
            /\ UNCHANGED <<sessions, variants>>
       /\ response'.code = "OK" =>
            \E old \in sessions, new \in sessions' :
              /\ old.id = i.id
              /\ old.userId = response'.caller[1]
              /\ new.id = old.id
              /\ new.userId = old.userId
              /\ new.createdAt = old.createdAt
              /\ new.updatedAt = now
              /\ new.language = IF IsDefined(i.language) THEN i.language ELSE old.language
              /\ new.context = IF IsDefined(i.context) THEN i.context ELSE old.context
              /\ new.originalText =
                   IF IsDefined(i.originalText) THEN i.originalText[1] ELSE old.originalText
              /\ sessions' \ {new} = sessions \ {old}
              /\ response'.rows = {new}
              /\ variants' = variants]_vars

\* a session with both labels got a new text alone, later than its creation:
\* the labels are still there and updatedAt has moved
C4_Witness ==
  /\ response.op = "updateSession"
  /\ response.code = "OK"
  /\ response.input.originalText = Some("u")
  /\ ~IsDefined(response.input.language)
  /\ ~IsDefined(response.input.context)
  /\ \E s \in sessions :
       /\ s.id = response.input.id
       /\ s.language = Some("x")
       /\ s.context = Some("x")
       /\ s.originalText = "u"
       /\ s.updatedAt > s.createdAt

\* the variants listVariants(sessionId, favoritesOnly = true) is to return
FavoritesOf(sessionId) ==
  {v \in variants : v.sessionId = sessionId /\ v.isFavorite = TRUE}

\* C5: createVariant without isFavorite stores and returns a variant with
\* isFavorite = false; listVariants with favoritesOnly = true returns exactly
\* the stored variants of the session that have isFavorite = true, and their
\* number as total; after a successful updateVariant with isFavorite = true
\* the stored variant of that id is among them.
C5_FavoritesOnly ==
  LET i == response.input IN
  /\ (/\ response.op = "createVariant"
      /\ response.code = "OK"
      /\ ~IsDefined(i.isFavorite)) =>
       /\ response.rows /= {}
       /\ \A v \in response.rows :
            v \in variants /\ v.isFavorite = FALSE /\ v \notin FavoritesOf(i.sessionId)
  /\ (/\ response.op = "listVariants"
      /\ response.code = "OK"
      /\ i.favoritesOnly = Some(TRUE)) =>
       /\ response.rows = FavoritesOf(i.sessionId)
       /\ response.total = Cardinality(FavoritesOf(i.sessionId))
  /\ (/\ response.op = "updateVariant"
      /\ response.code = "OK"
      /\ i.isFavorite = Some(TRUE)) =>
       \A v \in variants : v.id = i.id => v \in FavoritesOf(i.sessionId)

\* the list of favourites holds the variant that was created with the default
\* flag and then updated to isFavorite = true
C5_Witness ==
  /\ response.op = "listVariants"
  /\ response.code = "OK"
  /\ response.input.favoritesOnly = Some(TRUE)
  /\ \E v \in response.rows, w \in SeedVariants :
       v.id = w.id /\ w.isFavorite = FALSE
  /\ response.total = 1

\* the ids of the variants ever created
CreatedIds == {c[1] : c \in createdBy}
StoredIds == {v.id : v \in variants}

\* C6: deleteVariant by the owner of the session ends with NOT_FOUND and
\* changes nothing when no stored variant has the id and sessionId; otherwise
\* it removes exactly that variant and succeeds.  A removed variant never is
\* stored again (so no later listVariants returns it, and a second
\* deleteVariant of it ends with NOT_FOUND).
C6_DeleteVariant ==
  [][/\ (/\ Completes
         /\ response'.op = "deleteVariant"
         /\ IsDefined(response'.caller)
         /\ Valid("deleteVariant", response'.input)
         /\ Owns(response'.caller[1], response'.input.sessionId)) =>
          LET i == response'.input
              hit == {v \in variants : v.id = i.id /\ v.sessionId = i.sessionId}
          IN /\ sessions' = sessions
             /\ response'.rows = {}
             /\ IF hit = {}
                THEN response'.code = "NOT_FOUND" /\ variants' = variants
                ELSE /\ response'.code = "OK"
                     /\ Cardinality(hit) = 1
                     /\ variants' = variants \ hit
                     /\ i.id \notin {v.id : v \in variants'}
     /\ \A id \in CreatedIds : id \notin StoredIds => id \notin {v.id : v \in variants'}
    ]_vars

\* the owner deletes a variant that was created and is stored no more (a
\* second deleteVariant) and gets NOT_FOUND
C6_Witness ==
  /\ response.op = "deleteVariant"
  /\ IsDefined(response.caller)
  /\ Owns(response.caller[1], response.input.sessionId)
  /\ <<response.input.id, response.caller[1]>> \in createdBy
  /\ response.input.id \notin StoredIds
  /\ response.code = "NOT_FOUND"

\* C7: updateVariant by the owner of session sessionId, for a stored variant
\* of another session, ends with NOT_FOUND and changes no row.
C7_WrongSessionNotFound ==
  [][(/\ Completes
      /\ response'.op = "updateVariant"
      /\ IsDefined(response'.caller)
      /\ Valid("updateVariant", response'.input)
      /\ Owns(response'.caller[1], response'.input.sessionId)
      /\ \E v \in variants :
           v.id = response'.input.id /\ v.sessionId /= response'.input.sessionId) =>
       /\ response'.code = "NOT_FOUND"
       /\ response'.rows = {}
       /\ UNCHANGED <<sessions, variants>>]_vars

\* u1 owns both sessions, the variant is in the other one, and the call ends
\* with NOT_FOUND
C7_Witness ==
  /\ response.op = "updateVariant"
  /\ IsDefined(response.caller)
  /\ Owns(response.caller[1], response.input.sessionId)
  /\ \E v \in variants :
       /\ v.id = response.input.id
       /\ v.sessionId /= response.input.sessionId
       /\ Owns(response.caller[1], v.sessionId)
  /\ response.code = "NOT_FOUND"

\* C8: every stored variant's sessionId is the id of a stored session, and
\* that session's owner is the user whose createVariant call created it.
C8_VariantSessionOwner ==
  \A v \in variants :
    \E s \in sessions : s.id = v.sessionId /\ <<v.id, s.userId>> \in createdBy

\* a variant created by u2 (none of the initial rows) is stored
C8_Witness ==
  \E v \in variants : <<v.id, "u2">> \in createdBy

\* the keys of `i` that updateVariant writes have the supplied values in `v`
Carries(v, i) ==
  /\ IsDefined(i.tone) => v.tone = i.tone
  /\ IsDefined(i.complexity) => v.complexity = i.complexity
  /\ IsDefined(i.variantLabel) => v.variantLabel = i.variantLabel
  /\ IsDefined(i.content) => v.content = i.content[1]
  /\ IsDefined(i.isFavorite) => v.isFavorite = i.isFavorite[1]

\* C9: every updateVariant call that returns success returns the updated
\* record: a stored variant with the given id and sessionId that carries the
\* supplied values.
C9_UpdateReturnsRecord ==
  (response.op = "updateVariant" /\ response.code = "OK") =>
    \E v \in response.rows :
      /\ v \in variants
      /\ v.id = response.input.id
      /\ v.sessionId = response.input.sessionId
      /\ Carries(v, response.input)

\* C10: listSessions by a signed-in user succeeds, returns exactly the stored
\* sessions of that user and their number as total, and changes no row.
C10_ListSessions ==
  [][(Completes /\ response'.op = "listSessions" /\ IsDefined(response'.caller)) =>
       /\ response'.code = "OK"
       /\ response'.rows \subseteq sessions
       /\ \A s \in sessions : s \in response'.rows <=> s.userId = response'.caller[1]
       /\ response'.total = Cardinality(response'.rows)
       /\ UNCHANGED <<sessions, variants>>]_vars

\* a user with two sessions lists while the other user has one too: two of
\* the three sessions come back
C10_Witness ==
  /\ response.op = "listSessions"
  /\ response.code = "OK"
  /\ response.total = 2
  /\ \E s \in sessions : s \notin response.rows

====
